---- MODULE Spec2Model ----
(***************************************************************************)
(* Rules engine of the two-player ecological card game (src/game.py): the  *)
(* turn state machine, the food economy of the biome, the legality of a    *)
(* played card, the end-of-turn pipeline (hunting, feeding, starvation,    *)
(* conversion) and the two-step control (win) check.                       *)
(*                                                                         *)
(* The engine functions are translated as operators over a GameState       *)
(* record; the two entry points play_card and end_turn are the actions.    *)
(* end_turn is one atomic action (the engine is single-threaded and the    *)
(* whole pipeline runs inside one call); what the pipeline did at each of  *)
(* its phases is kept in the observation variable trace.                   *)
(***************************************************************************)
EXTENDS Integers, Sequences, FiniteSets, TLC

\* ------------------------------------------------------------------ bounds
\* The action windows (turns) explored: the window of turn MaxTurn is entered
\* by the end_turn before it and no call is made in it unless the game is over.
MaxTurn == 6

\* -------------------------------------------------------- program constants
CnBase == 4
Lmax == 6
HandTarget == 8
MaxActions == 3

NoWinner == "None"
PlayerName(i) == IF i = 0 THEN "Jugador 1" ELSE "Jugador 2"

\* ------------------------------------------------------------ card catalog
\* data.py (CARD_INDEX, DECK_P1, DECK_P2) is not part of the sources; the
\* catalog below has the attributes the engine reads.  A plant carries only
\* cnPerTurn in the catalog; the animal attributes of a plant entry are
\* never read by the engine and are 0 here.
Plant(cn) ==
    [kind |-> "plant", cnPerTurn |-> cn, type |-> "-", level |-> 0, attack |-> 0,
     defense |-> 0, instinct |-> 0, mobility |-> 0, weightKg |-> 0]

Animal(t, l, a, d, i, m, w) ==
    [kind |-> "animal", cnPerTurn |-> 0, type |-> t, level |-> l, attack |-> a,
     defense |-> d, instinct |-> i, mobility |-> m, weightKg |-> w]

CARD_INDEX ==
    [c \in {"pl17", "pl2", "g1", "h1", "h2", "h3", "h4", "h5", "h6",
            "g3", "c3", "o5"} |->
        CASE c = "pl17" -> Plant(17)
          [] c = "pl2"  -> Plant(2)
          [] c = "g1"   -> Animal("Herbivore", 1, 5, 10, 30, 60, 25)
          [] c = "h1"   -> Animal("Herbivore", 1, 5, 10, 30, 60, 20)
          [] c = "h2"   -> Animal("Herbivore", 2, 10, 20, 45, 50, 120)
          [] c = "h3"   -> Animal("Herbivore", 3, 20, 45, 50, 30, 300)
          [] c = "h4"   -> Animal("Herbivore", 4, 30, 45, 45, 45, 600)
          [] c = "h5"   -> Animal("Herbivore", 5, 35, 60, 40, 30, 900)
          [] c = "h6"   -> Animal("Herbivore", 6, 40, 80, 35, 20, 1500)
          [] c = "g3"   -> Animal("Herbivore", 3, 15, 25, 30, 35, 300)
          [] c = "c3"   -> Animal("Carnivore", 3, 30, 30, 40, 30, 1200)
          [] c = "o5"   -> Animal("Omnivore", 5, 60, 25, 55, 30, 450)]

Cards == DOMAIN CARD_INDEX

\* The starter decks as start_game leaves them after random.shuffle, each
\* element <<deck of player 0, deck of player 1>>: a game in which the
\* second player can assemble one animal of every level on the food of the
\* first player's plant, two shuffles of a game with a carnivore, an
\* omnivore, two herbivores of the same level and one of a lower level, and
\* a game in which the first player's deck is longer than a full hand.
ShuffledDecks ==
    { << <<"pl17", "g1">>, <<"h1", "h2", "h3", "h4", "h5", "h6">> >>,
      << <<"h1", "g1", "h1", "h1", "g1", "h1", "h1", "h1", "g1", "h1">>,
         <<"pl2", "pl17">> >>,
      << <<"c3", "h3", "o5">>, <<"g3", "h2", "pl2">> >>,
      << <<"o5", "c3", "h3">>, <<"pl2", "g3", "h2">> >> }

\* --------------------------------------------------------------- GameState
\* The GameState aggregate as a record: players is indexed 0..1, biome holds
\* the mutable fields cc, cn_temp and cn (cn_base and lmax never change and
\* are CnBase and Lmax), log holds the entries appended so far by the call
\* being evaluated.
AddLog(s, message) == [s EXCEPT !.log = Append(@, message)]

NewPlayer(deck) == [deck |-> deck, hand |-> <<>>, pending_control |-> FALSE]

AnimalInstance(id, card_id, owner) ==
    [instance_id |-> id, card_id |-> card_id, owner |-> owner, hunger |-> 0]

PlantInstance(id, card_id, owner) ==
    [instance_id |-> id, card_id |-> card_id, owner |-> owner]

NewGameState(deck1, deck2) ==
    [players |-> [i \in {0, 1} |-> NewPlayer(IF i = 0 THEN deck1 ELSE deck2)],
     biome |-> [cc |-> 0, cn_temp |-> 0, cn |-> 0],
     animals |-> <<>>,
     plants |-> <<>>,
     active_player_index |-> 0,
     actions_used |-> 0,
     next_instance_id |-> 1,
     log |-> <<>>,
     winner |-> NoWinner]

\* ----------------------------------------------------------------- helpers
\* The element of a one-element set.  {F(x) : x \in {e}} evaluates e once and
\* names its value x, which is how an intermediate result that is used
\* several times (a local variable of the code) is written below.
Only(S) == CHOOSE v \in S : TRUE

Min(a, b) == IF a <= b THEN a ELSE b
Max(a, b) == IF a >= b THEN a ELSE b

\* Variant of RemoveFirst for C9: the card stays in the hand.
KeepCard(seq, x) == seq

\* list.remove(x): drops the first occurrence of x.
RECURSIVE RemoveFirst(_, _)
RemoveFirst(seq, x) ==
    IF seq = <<>> THEN <<>>
    ELSE IF Head(seq) = x THEN Tail(seq)
         ELSE <<Head(seq)>> \o RemoveFirst(Tail(seq), x)

InSeq(seq, x) == \E i \in 1..Len(seq) : seq[i] = x

RECURSIVE SumCnPerTurn(_)
SumCnPerTurn(plants) ==
    IF plants = <<>> THEN 0
    ELSE CARD_INDEX[Head(plants).card_id].cnPerTurn + SumCnPerTurn(Tail(plants))

CardOf(animal) == CARD_INDEX[animal.card_id]

\* Variant of Threshold for C11: the half is rounded down.
ThresholdRoundedDown(predator_level) == predator_level \div 2

\* math.ceil(predator_level / 2)
Threshold(predator_level) == (predator_level + 1) \div 2

\* ----------------------------------------------------------- check_control
check_control(s, player_index) ==
    \A level \in 1..Lmax :
        \E i \in 1..Len(s.animals) :
            /\ CardOf(s.animals[i]).level = level
            /\ s.animals[i].owner = player_index

\* ------------------------------------------------------------ draw_to_hand
\* Variant of draw_loop for C13: one card is drawn instead of looping.
draw_once(player0, target_size) ==
    IF Len(player0.hand) < target_size /\ player0.deck # <<>>
    THEN [player0 EXCEPT !.hand = Append(@, Head(player0.deck)),
                         !.deck = Tail(@)]
    ELSE player0

RECURSIVE draw_loop(_, _)
draw_loop(player0, target_size) ==
    LET Loop(player) ==
            IF Len(player.hand) < target_size /\ player.deck # <<>>
            THEN draw_loop([player EXCEPT !.hand = Append(@, Head(player.deck)),
                                          !.deck = Tail(@)], target_size)
            ELSE player
    IN  Only({Loop(player) : player \in {player0}})

draw_to_hand(s, p, target_size) ==
    AddLog([s EXCEPT !.players[p] = draw_loop(s.players[p], target_size)], "roba")

\* -------------------------------------------------------------- start_turn
\* Variant of confirms_control for C2: the flag alone decides, control is not
\* evaluated again.
confirms_on_flag_alone(s, p) == s.players[p].pending_control

\* The confirming check of start_turn.
confirms_control(s, p) == s.players[p].pending_control /\ check_control(s, p)

\* Variant of begin_turn for C5: the action counter is not reset.
begin_turn_without_reset(s) ==
    LET p == s.active_player_index
        cn == CnBase + s.biome.cn_temp + SumCnPerTurn(s.plants)
        s1 == [s EXCEPT !.biome.cn = cn,
                        !.biome.cn_temp = 0]
    IN  draw_to_hand(AddLog(s1, "inicio de turno"), p, HandTarget)

\* Variant of begin_turn for C12: the pool is computed without the bonus.
begin_turn_without_bonus(s) ==
    LET p == s.active_player_index
        cn == CnBase + SumCnPerTurn(s.plants)
        s1 == [s EXCEPT !.actions_used = 0,
                        !.biome.cn = cn,
                        !.biome.cn_temp = 0]
    IN  draw_to_hand(AddLog(s1, "inicio de turno"), p, HandTarget)

\* start_turn past the confirming check: the reset, the food pool, the draw.
begin_turn(s) ==
    LET p == s.active_player_index
        cn == CnBase + s.biome.cn_temp + SumCnPerTurn(s.plants)
        s1 == [s EXCEPT !.actions_used = 0,
                        !.biome.cn = cn,
                        !.biome.cn_temp = 0]
    IN  draw_to_hand(AddLog(s1, "inicio de turno"), p, HandTarget)

start_turn(state) ==
    LET Body(s) ==
            LET p == s.active_player_index
            IN  IF confirms_control(s, p)
                THEN AddLog([s EXCEPT !.winner = PlayerName(p)], "gana la partida")
                ELSE begin_turn(s)
    IN  Only({Body(s) : s \in {state}})

\* -------------------------------------------------------------- start_game
start_game(decks) ==
    start_turn(AddLog(NewGameState(decks[1], decks[2]), "juego iniciado"))

\* -------------------------------------------------------- find_viable_prey
IsPreyFor(predator_level, animal) ==
    /\ CardOf(animal).type \in {"Herbivore", "Omnivore"}
    /\ CardOf(animal).level >= Threshold(predator_level)

find_viable_prey(s, predator_level) ==
    LET Viable(animal) == IsPreyFor(predator_level, animal)
    IN  SelectSeq(s.animals, Viable)

is_viable_prey(predator_level, prey) == IsPreyFor(predator_level, prey)

\* --------------------------------------------------------- can_play_animal
\* Variant of refuse for C10: the refusal is not logged.
refuse_silently(s, message) == [ok |-> FALSE, s |-> s]

\* Returns the verdict and the state with the refusal logged.
refuse(s, message) == [ok |-> FALSE, s |-> AddLog(s, message)]

can_play_animal(s, card) ==
    LET biome_cn == s.biome.cn
        level == card.level
        has_prey == find_viable_prey(s, level) # <<>>
    IN  CASE card.type = "Herbivore" ->
                IF biome_cn >= level
                THEN [ok |-> TRUE, s |-> s]
                ELSE refuse(s, "no hay CN suficiente")
          [] card.type = "Carnivore" ->
                IF has_prey
                THEN [ok |-> TRUE, s |-> s]
                ELSE refuse(s, "no hay presas viables")
          [] card.type = "Omnivore" ->
                IF biome_cn >= level \/ has_prey
                THEN [ok |-> TRUE, s |-> s]
                ELSE refuse(s, "omnivoro requiere CN o presa")
          [] OTHER -> refuse(s, "tipo de animal invalido")

\* --------------------------------------------------------------- play_card
\* Variant of budget_exhausted for C4: the test is off by one.
budget_exceeded(s) == s.actions_used > MaxActions

\* The action budget test of play_card.
budget_exhausted(s) == s.actions_used >= MaxActions

\* Variant of new_instance_id for C8: the id is derived from the number of
\* live instances instead of the counter.
id_from_table_size(s) == Len(s.animals) + Len(s.plants) + 1

\* The id play_card gives the instance it creates.
new_instance_id(s) == s.next_instance_id

\* Returns [s |-> the state after the call, ret |-> the returned boolean].
play_card(s, card_id) ==
    LET p == s.active_player_index
        player == s.players[p]
    IN  IF s.winner # NoWinner
        THEN [s |-> AddLog(s, "la partida ya termino"), ret |-> FALSE]
        ELSE IF ~InSeq(player.hand, card_id)
        THEN [s |-> AddLog(s, "esa carta no esta en la mano"), ret |-> FALSE]
        ELSE IF budget_exhausted(s)
        THEN [s |-> AddLog(s, "ya usaste las 3 acciones"), ret |-> FALSE]
        ELSE LET card == CARD_INDEX[card_id]
                 placed == [s EXCEPT !.next_instance_id = @ + 1,
                                     !.players[p].hand = RemoveFirst(@, card_id),
                                     !.actions_used = @ + 1]
             IN  CASE card.kind = "plant" ->
                        [s |-> AddLog([placed EXCEPT !.plants = Append(@,
                                          PlantInstance(new_instance_id(s), card_id, p))],
                                      "juega planta"),
                         ret |-> TRUE]
                   [] card.kind = "animal" ->
                        LET can == can_play_animal(s, card)
                        IN  IF ~can.ok
                            THEN [s |-> can.s, ret |-> FALSE]
                            ELSE [s |-> AddLog([placed EXCEPT !.animals = Append(@,
                                                  AnimalInstance(new_instance_id(s), card_id, p))],
                                               "juega animal"),
                                  ret |-> TRUE]
                   [] OTHER -> [s |-> AddLog(s, "tipo de carta desconocido"), ret |-> FALSE]

\* ----------------------------------------------------- resolve_single_hunt
\* Assigning to a field of an instance object changes the table only while
\* that object is still in state.animals.
SetHunger(animals, id, h) ==
    [i \in 1..Len(animals) |->
        IF animals[i].instance_id = id THEN [animals[i] EXCEPT !.hunger = h]
        ELSE animals[i]]

RemoveInstance(animals, id) ==
    LET Other(a) == a.instance_id # id
    IN  SelectSeq(animals, Other)

\* min(100, int(weightKg / 10))
WeightScaled(card) == Min(100, card.weightKg \div 10)
\* Variant of AttackScore for C16: the weight bonus is left out.
AttackScoreUnscaled(card) == card.attack

\* attack + int(0.20 * scaled), defense + int(0.25 * scaled)
AttackScore(card) == card.attack + (WeightScaled(card) \div 5)
DefenseScore(card) == card.defense + (WeightScaled(card) \div 4)

\* predator is the object taken from the predators list built when the phase
\* began (its hunger can only have been changed by its own hunt, so it still
\* has the hunger of that list); prey is a live instance.
\* Returns [s, ret, outcome].
resolve_single_hunt(s, predator, prey) ==
    LET predator_card == CardOf(predator)
        prey_card == CardOf(prey)
    IN  IF ~(predator_card.instinct >= prey_card.instinct)
           /\ predator_card.mobility < prey_card.mobility
        THEN [s |-> AddLog(s, "escapa por movilidad"), ret |-> FALSE,
              outcome |-> "escape"]
        ELSE LET s0 == AddLog(s, IF predator_card.instinct >= prey_card.instinct
                                 THEN "instinto favorece" ELSE "alcanza en movilidad")
             IN  IF AttackScore(predator_card) >= DefenseScore(prey_card)
                 THEN LET h == IF prey_card.level = predator_card.level THEN 0
                               ELSE Max(predator.hunger - 1, 0)
                          s1 == [AddLog(s0, "elimina") EXCEPT
                                    !.animals = SetHunger(
                                        RemoveInstance(@, prey.instance_id),
                                        predator.instance_id, h),
                                    !.biome.cc = @ + prey_card.level]
                      IN  [s |-> s1, ret |-> TRUE, outcome |-> "kill"]
                 ELSE [s |-> AddLog(s0, "resiste el combate"), ret |-> FALSE,
                       outcome |-> "resist"]

\* --------------------------------------------------------- resolve_hunting
IsLive(s, id) == \E i \in 1..Len(s.animals) : s.animals[i].instance_id = id

\* next((a for a in state.animals if a.instance_id == prey_id), None)
FindInstance(s, id) ==
    LET Same(a) == a.instance_id = id
    IN  SelectSeq(s.animals, Same)

\* hunting_choices.get(id): 0 stands for None (a key that is absent); the
\* engine treats a stored 0 the same way ("if not prey_id").
ChoiceGet(hunting_choices, id) ==
    IF id \in DOMAIN hunting_choices THEN hunting_choices[id] ELSE 0

\* Variant of HungryPredators for C15: hunger is not looked at.
PredatorsHungryOrNot(s) ==
    LET Hunter(a) == CardOf(a).type \in {"Carnivore", "Omnivore"}
    IN  SelectSeq(s.animals, Hunter)

HungryPredators(s) ==
    LET Hungry(a) == CardOf(a).type \in {"Carnivore", "Omnivore"} /\ a.hunger >= 1
    IN  SelectSeq(s.animals, Hungry)

\* The loop over the predators list, from position i on.  r carries the
\* state, the fed_predators set and, for observation, one record per
\* predator visited: who hunted whom, the hunger the predator object had,
\* whether the predator was still on the table when its turn came, how the
\* attempt ended, and the table and cc before and after the visit.
RECURSIVE hunting_loop(_, _, _, _)
hunting_loop(r0, predators, i, hunting_choices) ==
    LET Visit(r, s2, fed2, prey_id, outcome) ==
            [s |-> s2, fed_predators |-> fed2,
             hunts |-> Append(r.hunts,
                 [predator |-> predators[i].instance_id, prey |-> prey_id,
                  hunger |-> predators[i].hunger,
                  predator_live |-> IsLive(r.s, predators[i].instance_id),
                  outcome |-> outcome,
                  animals_before |-> r.s.animals, cc_before |-> r.s.biome.cc,
                  animals_after |-> s2.animals, cc_after |-> s2.biome.cc])]
        Hunt(r, predator, prey, h) ==
            Visit(r, h.s,
                  IF h.ret THEN r.fed_predators \cup {predator.instance_id}
                  ELSE r.fed_predators,
                  prey.instance_id, h.outcome)
        Iteration(r) ==
            LET predator == predators[i]
                s == r.s
                prey_id == ChoiceGet(hunting_choices, predator.instance_id)
                found == FindInstance(s, prey_id)
            IN  IF prey_id = 0
                THEN Visit(r, AddLog(s, "no tiene objetivo"), r.fed_predators,
                           prey_id, "no target")
                ELSE IF found = <<>>
                THEN Visit(r, AddLog(s, "objetivo invalido"), r.fed_predators,
                           prey_id, "invalid")
                ELSE IF ~is_viable_prey(CardOf(predator).level, found[1])
                THEN Visit(r, AddLog(s, "no puede cazar esa presa"), r.fed_predators,
                           prey_id, "not viable")
                ELSE Only({Hunt(r, predator, found[1], h) :
                           h \in {resolve_single_hunt(s, predator, found[1])}})
        Loop(r) ==
            IF i > Len(predators) THEN r
            ELSE hunting_loop(Iteration(r), predators, i + 1, hunting_choices)
    IN  Only({Loop(r) : r \in {r0}})

IdsOf(seq) == {seq[i].instance_id : i \in 1..Len(seq)}

\* The Carnivore and Omnivore instances on the table, hungry or not.
Predators(s) ==
    LET Hunter(a) == CardOf(a).type \in {"Carnivore", "Omnivore"}
    IN  SelectSeq(s.animals, Hunter)

\* For observation: the predators with hunger 0 to which hunting_choices
\* gives a live prey that is viable for them.
IdleMapped(s, hunting_choices) ==
    {id \in IdsOf(Predators(s)) :
        LET predator == FindInstance(s, id)[1]
            found == FindInstance(s, ChoiceGet(hunting_choices, id))
        IN  /\ predator.hunger = 0
            /\ found # <<>>
            /\ is_viable_prey(CardOf(predator).level, found[1])}

\* Returns [s, fed_predators, hunts].
resolve_hunting(s, hunting_choices) ==
    LET Phase(predators) ==
            IF predators = <<>>
            THEN [s |-> AddLog(s, "no hay depredadores con hambre"),
                  fed_predators |-> {}, hunts |-> <<>>]
            ELSE hunting_loop([s |-> AddLog(s, "fase de caza"), fed_predators |-> {},
                               hunts |-> <<>>],
                              predators, 1, hunting_choices)
    IN  Only({Phase(predators) : predators \in {HungryPredators(s)}})

\* --------------------------------------------------------- resolve_feeding
LevelAnimals(s, level) ==
    LET AtLevel(a) == /\ CardOf(a).type \in {"Herbivore", "Omnivore"}
                      /\ CardOf(a).level = level
    IN  SelectSeq(s.animals, AtLevel)

\* for animal in <the instances named by ids>: animal.hunger = 0
ResetHunger(animals, ids) ==
    [i \in 1..Len(animals) |->
        IF animals[i].instance_id \in ids THEN [animals[i] EXCEPT !.hunger = 0]
        ELSE animals[i]]

\* Variant of IncHunger for C21: the hunger of the named instances stays.
KeepHunger(animals, ids) == animals

\* for animal in <the instances named by ids>: animal.hunger += 1
IncHunger(animals, ids) ==
    [i \in 1..Len(animals) |->
        IF animals[i].instance_id \in ids THEN [animals[i] EXCEPT !.hunger = @ + 1]
        ELSE animals[i]]

\* Variant of FirstHeaviest for C17: among equal weights the last one wins.
LastHeaviest(seq) ==
    LET W(i) == CardOf(seq[i]).weightKg
        k == CHOOSE i \in 1..Len(seq) :
                 /\ \A j \in 1..Len(seq) : W(j) <= W(i)
                 /\ \A j \in (i + 1)..Len(seq) : W(j) < W(i)
    IN  seq[k]

\* sorted(seq, key=weightKg, reverse=True)[0]: sorted is stable, also with
\* reverse=True, so among equal weights the first in table order comes first.
FirstHeaviest(seq) ==
    LET W(i) == CardOf(seq[i]).weightKg
        k == CHOOSE i \in 1..Len(seq) :
                 /\ \A j \in 1..Len(seq) : W(j) <= W(i)
                 /\ \A j \in 1..(i - 1) : W(j) < W(i)
    IN  seq[k]

\* The two tests of an iteration of the level loop.
all_can_eat(cn, level, count) == cn >= level * count

\* Variant of duel_possible for C6: the duel does not look at the pool.
duel_whatever_the_pool(cn, level, count) == count >= 2

duel_possible(cn, level, count) == count >= 2 /\ cn >= level

\* One iteration of the level loop.  Returns [s, branch].
feed_level(s, level) ==
    LET level_animals == LevelAnimals(s, level)
        total_needed == level * Len(level_animals)
        cn == s.biome.cn
    IN  IF level_animals = <<>> THEN [s |-> s, branch |-> "empty"]
        ELSE IF all_can_eat(cn, level, Len(level_animals))
        THEN [s |-> AddLog([s EXCEPT !.biome.cn = @ - total_needed,
                                     !.animals = ResetHunger(@, IdsOf(level_animals))],
                           "todos comen"),
              branch |-> "all"]
        ELSE LET s0 == AddLog(s, "CN insuficiente")
             IN  IF duel_possible(cn, level, Len(level_animals))
                 THEN LET winner == FirstHeaviest(level_animals)
                          rest == RemoveInstance(level_animals, winner.instance_id)
                          loser == FirstHeaviest(rest)
                          others == IdsOf(level_animals)
                                      \ {winner.instance_id, loser.instance_id}
                      IN  [s |-> AddLog([s0 EXCEPT
                                   !.biome.cn = @ - level,
                                   !.animals = IncHunger(
                                       IncHunger(ResetHunger(@, {winner.instance_id}),
                                                 {loser.instance_id}),
                                       others)],
                                 "duelo ecologico"),
                           branch |-> "duel"]
                 ELSE [s |-> AddLog([s0 EXCEPT
                                   !.animals = IncHunger(@, IdsOf(level_animals))],
                                 "todos aumentan hambre"),
                       branch |-> "none"]

\* The level loop from `level` up to lmax.  r carries the state and, for
\* observation, one record per level: the branch taken and the food pool and
\* table after it.
RECURSIVE feeding_loop(_, _)
feeding_loop(r0, level) ==
    LET Step(r, f) ==
            [s |-> f.s,
             steps |-> Append(r.steps,
                 [level |-> level, branch |-> f.branch,
                  cn_before |-> r.s.biome.cn, cn |-> f.s.biome.cn,
                  animals |-> f.s.animals])]
        Loop(r) ==
            IF level > Lmax THEN r
            ELSE feeding_loop(Only({Step(r, f) : f \in {feed_level(r.s, level)}}),
                              level + 1)
    IN  Only({Loop(r) : r \in {r0}})

\* Variant of UnfedCarnivores for C18: Omnivores are counted as well.
UnfedHunters(s, fed_predators) ==
    LET Unfed(a) == /\ CardOf(a).type \in {"Carnivore", "Omnivore"}
                    /\ a.instance_id \notin fed_predators
    IN  SelectSeq(s.animals, Unfed)

UnfedCarnivores(s, fed_predators) ==
    LET Unfed(a) == /\ CardOf(a).type = "Carnivore"
                    /\ a.instance_id \notin fed_predators
    IN  SelectSeq(s.animals, Unfed)

\* Returns [s, steps].
resolve_feeding(s, fed_predators) ==
    LET Carnivores(r) ==
            LET unfed_carnivores == UnfedCarnivores(r.s, fed_predators)
            IN  IF unfed_carnivores # <<>>
                THEN [r EXCEPT !.s = AddLog([@ EXCEPT
                                   !.animals = IncHunger(@, IdsOf(unfed_carnivores))],
                                   "carnivoros sin presa aumentan hambre")]
                ELSE r
    IN  Only({Carnivores(r) :
              r \in {feeding_loop([s |-> AddLog(s, "fase de alimentacion"),
                                   steps |-> <<>>], 1)}})

\* ------------------------------------------------------ resolve_starvation
RECURSIVE SumLevels(_)
SumLevels(seq) ==
    IF seq = <<>> THEN 0 ELSE CardOf(Head(seq)).level + SumLevels(Tail(seq))

RECURSIVE LogEach(_, _, _)
LogEach(s, n, message) == IF n = 0 THEN s ELSE LogEach(AddLog(s, message), n - 1, message)

\* Variant of is_starved for C7: the threshold is one too high.
is_starved_at_three(animal) == animal.hunger >= 3

\* The death test of resolve_starvation.
is_starved(animal) == animal.hunger >= 2

resolve_starvation(s) ==
    LET Starved(a) == is_starved(a)
        Alive(a) == ~Starved(a)
        dead == SelectSeq(s.animals, Starved)
    IN  IF dead # <<>>
        THEN [LogEach(s, Len(dead), "muere por hambre") EXCEPT
                 !.biome.cc = @ + SumLevels(dead),
                 !.animals = SelectSeq(@, Alive)]
        ELSE AddLog(s, "no hay muertes por hambre")

\* ------------------------------------------------------ resolve_conversion
\* Variant of resolve_conversion for C19: the product is rounded up.
resolve_conversion_rounding_up(s) ==
    [AddLog(s, "conversion") EXCEPT !.biome.cn_temp = (2 * s.biome.cc + 4) \div 5,
                                    !.biome.cc = 0]

\* math.floor(0.40 * cc)
resolve_conversion(s) ==
    [AddLog(s, "conversion") EXCEPT !.biome.cn_temp = (2 * s.biome.cc) \div 5,
                                    !.biome.cc = 0]

\* ---------------------------------------------------------------- end_turn
NoTrace == [ran |-> FALSE]

\* Variant of next_player for C14: the turn is not passed on.
same_player(index) == index

\* The index end_turn gives active_player_index.
next_player(index) == (index + 1) % 2

\* end_turn past its winner test: the four resolvers, the control evaluation,
\* the change of player and the next start_turn.
\* Returns [s |-> the state after the call, trace |-> what each phase did].
end_turn_resolution(s, hunting_choices) ==
    LET p == s.active_player_index
        Flagged(converted, control) ==
            IF control
            THEN AddLog([converted EXCEPT !.players[p].pending_control = TRUE],
                        "logra amenaza de control")
            ELSE [converted EXCEPT !.players[p].pending_control = FALSE]
        Advance(hunted, fed, starved, converted, control, advanced) ==
            [s |-> start_turn(advanced),
             trace |-> [ran |-> TRUE,
                        idle_mapped |-> IdleMapped(s, hunting_choices),
                        before |-> s,
                        hunts |-> hunted.hunts,
                        fed_predators |-> hunted.fed_predators,
                        after_hunting |-> hunted.s,
                        steps |-> fed.steps,
                        after_feeding |-> fed.s,
                        after_starvation |-> starved,
                        after_conversion |-> converted,
                        control |-> control,
                        before_start_turn |-> advanced]]
        Control(hunted, fed, starved, converted) ==
            Only({Advance(hunted, fed, starved, converted, control,
                          [Flagged(converted, control) EXCEPT
                              !.active_player_index = next_player(@)]) :
                  control \in {check_control(converted, p)}})
        Conversion(hunted, fed, starved) ==
            Only({Control(hunted, fed, starved, converted) :
                  converted \in {resolve_conversion(starved)}})
        Starvation(hunted, fed) ==
            Only({Conversion(hunted, fed, starved) :
                  starved \in {resolve_starvation(fed.s)}})
        Feeding(hunted) ==
            Only({Starvation(hunted, fed) :
                  fed \in {resolve_feeding(hunted.s, hunted.fed_predators)}})
    IN  Only({Feeding(hunted) : hunted \in {resolve_hunting(s, hunting_choices)}})

\* Variant of end_turn for C1: the winner test is missing.
end_turn_without_winner_test(s, hunting_choices) ==
    end_turn_resolution(s, hunting_choices)

end_turn(s, hunting_choices) ==
    IF s.winner # NoWinner THEN [s |-> s, trace |-> NoTrace]
    ELSE end_turn_resolution(s, hunting_choices)

\* ------------------------------------------------------------------- state
\* The fields of GameState, one variable each.  log holds the entries the
\* latest call appended to state.log (the log is append-only and is never
\* read by the engine).  op, ret and trace observe the latest call: its
\* name, what play_card returned, and what the phases
\* of end_turn did.  turn counts the action windows opened so far, and
\* closing[p] records the control evaluation that closed player p's latest
\* turn: "none" before p has ended a turn, else "held" or "failed".
VARIABLES players, biome, animals, plants, active_player_index, actions_used,
          next_instance_id, log, winner, op, ret, trace, turn, closing

game == <<players, biome, animals, plants, active_player_index, actions_used,
          next_instance_id, winner>>
vars == <<players, biome, animals, plants, active_player_index, actions_used,
          next_instance_id, log, winner, op, ret, trace, turn, closing>>

\* The GameState object a call receives.
State ==
    [players |-> players, biome |-> biome, animals |-> animals, plants |-> plants,
     active_player_index |-> active_player_index, actions_used |-> actions_used,
     next_instance_id |-> next_instance_id, log |-> <<>>, winner |-> winner]

\* The GameState object a call leaves behind.
Becomes(s) ==
    /\ players' = s.players
    /\ biome' = s.biome
    /\ animals' = s.animals
    /\ plants' = s.plants
    /\ active_player_index' = s.active_player_index
    /\ actions_used' = s.actions_used
    /\ next_instance_id' = s.next_instance_id
    /\ log' = s.log
    /\ winner' = s.winner

Init ==
    \E decks \in ShuffledDecks :
        \E s \in {start_game(decks)} :
            /\ players = s.players
            /\ biome = s.biome
            /\ animals = s.animals
            /\ plants = s.plants
            /\ active_player_index = s.active_player_index
            /\ actions_used = s.actions_used
            /\ next_instance_id = s.next_instance_id
            /\ log = s.log
            /\ winner = s.winner
            /\ op = "start_game"
            /\ ret = TRUE
            /\ trace = NoTrace
            /\ turn = 1
            /\ closing = [p \in {0, 1} |-> "none"]

\* play_card(state, card_id), for any card of the catalog.
PlayCard(card_id) ==
    \E r \in {play_card(State, card_id)} :
        /\ turn < MaxTurn \/ winner # NoWinner
        /\ Becomes(r.s)
        /\ op' = "play_card"
        /\ ret' = r.ret
        /\ trace' = NoTrace
        /\ turn' = turn
        /\ closing' = closing

\* The hunting_choices a caller can pass: an entry for every predator on the
\* table, hungry or not; each maps to nothing (0), to an instance id issued
\* so far (live or removed) or to an id not issued yet.
HuntingChoices == [IdsOf(Predators(State)) -> 0..next_instance_id]

\* end_turn(state, hunting_choices).
EndTurn(hunting_choices) ==
    /\ winner # NoWinner \/ turn < MaxTurn
    /\ \E r \in {end_turn(State, hunting_choices)} :
           /\ Becomes(r.s)
           /\ op' = "end_turn"
           /\ ret' = TRUE
           /\ trace' = r.trace
           /\ turn' = IF r.trace.ran /\ r.s.winner = NoWinner THEN turn + 1 ELSE turn
           /\ closing' = IF r.trace.ran
                         THEN [closing EXCEPT ![active_player_index] =
                                  IF r.trace.control THEN "held" ELSE "failed"]
                         ELSE closing

Next ==
    \/ \E card_id \in Cards : PlayCard(card_id)
    \/ \E hunting_choices \in HuntingChoices : EndTurn(hunting_choices)

Spec == Init /\ [][Next]_vars

\* ------------------------------------------------------------------ claims
ActivePlayer == players[active_player_index]

\* The latest call was an end_turn that ran its resolvers and start_turn.
TurnEnded == op = "end_turn" /\ trace.ran

SeqRange(seq) == {seq[i] : i \in 1..Len(seq)}

LiveIds == IdsOf(animals) \cup {plants[i].instance_id : i \in 1..Len(plants)}

\* C1: once winner is set it never changes, every later play_card or end_turn
\* call leaves players, biome, animals, plants, active_player_index,
\* actions_used and next_instance_id unchanged, and play_card returns False.
C1_WinnerIsTerminal ==
    [][winner # NoWinner =>
          /\ UNCHANGED game
          /\ (op' = "play_card" => ~ret')]_vars

\* A play_card call made after the game ended.
C1_Witness ==
    /\ winner # NoWinner
    /\ op = "play_card"
    /\ ~ret
    /\ log = <<"la partida ya termino">>

\* C2: a winner is declared only by the start_turn of that player (never by
\* start_game's start_turn, never by play_card), and only if check_control
\* held for that player at the evaluation that closed their own previous turn,
\* which set their pending_control, and holds again at this start_turn.
C2_WinnerOnlyOnConfirmedControl ==
    /\ winner = NoWinner
    /\ [][winner = NoWinner /\ winner' # NoWinner =>
            /\ op' = "end_turn"
            /\ trace'.ran
            /\ LET b == trace'.before_start_turn
                   P == b.active_player_index
               IN  /\ winner' = PlayerName(P)
                   /\ P # active_player_index
                   /\ active_player_index' = P
                   /\ closing[P] = "held"
                   /\ closing'[P] = "held"
                   /\ b.players[P].pending_control
                   /\ check_control(b, P)]_vars

\* A start_turn has just declared the winner.
C2_Witness ==
    /\ TurnEnded
    /\ winner = PlayerName(active_player_index)
    /\ closing[active_player_index] = "held"

\* C3: when start_turn finds the player's pending_control set and
\* check_control false for them, it leaves pending_control false and winner
\* unset.
C3_StalePendingIsCleared ==
    (/\ TurnEnded
     /\ LET b == trace.before_start_turn
        IN  /\ b.players[b.active_player_index].pending_control
            /\ ~check_control(b, b.active_player_index))
    => /\ ~ActivePlayer.pending_control
       /\ winner = NoWinner

\* C4: 0 <= actions_used <= 3 in every state; a successful play_card adds
\* exactly 1 to actions_used; a play_card attempted at actions_used = 3 fails.
C4_ActionBudget ==
    /\ actions_used \in 0..MaxActions
    /\ [][/\ actions_used' \in 0..MaxActions
          /\ op' = "play_card" =>
                /\ ret' => actions_used' = actions_used + 1
                /\ actions_used = MaxActions => ~ret']_vars

\* A play_card refused because the three actions were used.
C4_Witness ==
    /\ op = "play_card"
    /\ ~ret
    /\ actions_used = MaxActions
    /\ log = <<"ya usaste las 3 acciones">>

\* C5 as stated: after every start_turn, the one of start_game and the one
\* chained by end_turn, whatever its outcome, actions_used is 0.
C5_ResetAfterEveryStartTurn ==
    (op = "start_game" \/ TurnEnded) => actions_used = 0

\* C5: after every start_turn that does not declare a winner, the one of
\* start_game and the one chained by end_turn, actions_used is 0.
C5_ResetUnlessWinnerDeclared ==
    ((op = "start_game" \/ TurnEnded) /\ winner = NoWinner) => actions_used = 0

\* A start_turn that reset a counter the previous turn had raised.
C5_Witness ==
    /\ TurnEnded
    /\ winner = NoWinner
    /\ trace.before.actions_used > 0
    /\ actions_used = 0

\* C6: cn is never negative: in every state, after each level step of
\* resolve_feeding and when resolve_feeding returns.
C6_PoolNeverNegative ==
    /\ biome.cn >= 0
    /\ trace.ran =>
          /\ \A i \in 1..Len(trace.steps) : trace.steps[i].cn >= 0
          /\ trace.after_feeding.biome.cn >= 0
          /\ trace.after_starvation.biome.cn >= 0
          /\ trace.after_conversion.biome.cn >= 0

\* A feeding in which a level with two animals or more found less food than
\* one of them needs.
C6_Witness ==
    /\ trace.ran
    /\ \E i \in 1..Len(trace.steps) :
          /\ trace.steps[i].branch = "none"
          /\ Len(LevelAnimals([animals |-> trace.steps[i].animals],
                              trace.steps[i].level)) >= 2
          /\ trace.steps[i].cn < trace.steps[i].level

\* C7: when resolve_starvation returns, and so in every state in which
\* play_card can be called, every live animal has hunger 0 or 1; an animal
\* whose hunger is 2 or more after feeding is removed by the same end_turn.
C7_HungerBelowTwo ==
    /\ \A i \in 1..Len(animals) : animals[i].hunger \in {0, 1}
    /\ trace.ran =>
          /\ \A a \in SeqRange(trace.after_starvation.animals) : a.hunger \in {0, 1}
          /\ \A a \in SeqRange(trace.after_feeding.animals) :
                a.hunger >= 2 =>
                    /\ a.instance_id \notin IdsOf(trace.after_starvation.animals)
                    /\ a.instance_id \notin IdsOf(animals)

\* An end_turn whose feeding left an animal with hunger 2.
C7_Witness ==
    /\ trace.ran
    /\ \E a \in SeqRange(trace.after_feeding.animals) : a.hunger >= 2

\* C8: the instance ids of the live animals and plants are pairwise distinct
\* and less than next_instance_id; next_instance_id never decreases; an
\* instance that appears gets an id no earlier instance, live or removed, had.
C8_InstanceIdsUnique ==
    /\ next_instance_id = 1
    /\ [][/\ Cardinality(LiveIds') = Len(animals') + Len(plants')
          /\ \A id \in LiveIds' : id < next_instance_id'
          /\ next_instance_id' >= next_instance_id
          /\ \A id \in LiveIds' \ LiveIds : id >= next_instance_id]_vars

\* A card played after an instance was removed.
C8_Witness ==
    /\ op = "play_card"
    /\ ret
    /\ next_instance_id - 1 \in LiveIds
    /\ \E id \in 1..(next_instance_id - 1) : id \notin LiveIds

\* What a successful play of plant card c does to the table and the hand.
PlantPlaced(c) ==
    /\ Len(plants') = Len(plants) + 1
    /\ SubSeq(plants', 1, Len(plants)) = plants
    /\ plants'[Len(plants')].card_id = c
    /\ plants'[Len(plants')].owner = active_player_index
    /\ Len(players'[active_player_index].hand) = Len(ActivePlayer.hand) - 1
    /\ players'[active_player_index].hand = RemoveFirst(ActivePlayer.hand, c)
    /\ players'[active_player_index].deck = ActivePlayer.deck
    /\ players'[active_player_index].pending_control = ActivePlayer.pending_control
    /\ players'[1 - active_player_index] = players[1 - active_player_index]

\* C9 as stated: playing a plant card adds one plant and takes one card from
\* the hand, and changes nothing else of the state.
C9_PlantPlayChangesNothingElse ==
    [][\A c \in Cards :
          (CARD_INDEX[c].kind = "plant" /\ PlayCard(c) /\ ret') =>
              /\ PlantPlaced(c)
              /\ UNCHANGED <<biome, animals, active_player_index, actions_used,
                             next_instance_id, winner>>]_vars

\* C9: playing a plant card adds one plant and takes one card from the hand;
\* it also adds 1 to actions_used and to next_instance_id and appends one log
\* entry, and changes nothing else of the state.
C9_PlantPlayFrame ==
    [][\A c \in Cards :
          (CARD_INDEX[c].kind = "plant" /\ PlayCard(c) /\ ret') =>
              /\ PlantPlaced(c)
              /\ actions_used' = actions_used + 1
              /\ next_instance_id' = next_instance_id + 1
              /\ plants'[Len(plants')].instance_id = next_instance_id
              /\ Len(log') = 1
              /\ UNCHANGED <<biome, animals, active_player_index, winner>>]_vars

\* A plant has just been played.
C9_Witness ==
    /\ op = "play_card"
    /\ ret
    /\ log = <<"juega planta">>
    /\ plants # <<>>

\* The cases in which play_card is to fail.
MustFail(c) ==
    \/ winner # NoWinner
    \/ ~InSeq(ActivePlayer.hand, c)
    \/ actions_used = MaxActions
    \/ /\ CARD_INDEX[c].kind = "animal"
       /\ ~can_play_animal(State, CARD_INDEX[c]).ok

\* C10: a play_card call fails in each of the four cases (game over, card not
\* in the hand, three actions used, can_play_animal false), and every failing
\* call returns False, appends a log entry and leaves hand, deck, animals,
\* plants, biome, actions_used, next_instance_id, active_player_index and
\* winner unchanged.
C10_FailedPlayChangesNothing ==
    [][/\ \A c \in Cards : (MustFail(c) /\ ret') => ~PlayCard(c)
       /\ (op' = "play_card" /\ ~ret') => /\ Len(log') >= 1
                                          /\ UNCHANGED game]_vars

\* An animal refused by can_play_animal.
C10_Witness ==
    /\ op = "play_card"
    /\ ~ret
    /\ winner = NoWinner
    /\ log \in {<<"no hay CN suficiente">>, <<"no hay presas viables">>,
                <<"omnivoro requiere CN o presa">>}

\* The rule C11 states for an animal card, read off the table and the pool.
SomePreyOnTable(level) ==
    \E i \in 1..Len(animals) :
        /\ CARD_INDEX[animals[i].card_id].type \in {"Herbivore", "Omnivore"}
        /\ 2 * CARD_INDEX[animals[i].card_id].level >= level

PlayableByRule(c) ==
    LET card == CARD_INDEX[c]
    IN  CASE card.type = "Herbivore" -> biome.cn >= card.level
          [] card.type = "Carnivore" -> SomePreyOnTable(card.level)
          [] card.type = "Omnivore" ->
                biome.cn >= card.level \/ SomePreyOnTable(card.level)

AnimalCards == {c \in Cards : CARD_INDEX[c].kind = "animal"}

\* C11: in every state and for every animal card, can_play_animal accepts
\* the card exactly when the rule does: a Herbivore iff cn >= level, a
\* Carnivore iff some Herbivore or Omnivore of level >= ceil(level / 2) is on
\* the table, whoever owns it and whatever cn is, an Omnivore iff either.
C11_CanPlayAnimalMatchesRule ==
    \A c \in AnimalCards :
        can_play_animal(State, CARD_INDEX[c]).ok = PlayableByRule(c)

\* An Omnivore has just been played on a pool below its level, the only
\* prey on the table being the opponent's.
C11_Witness ==
    /\ op = "play_card"
    /\ ret
    /\ animals # <<>>
    /\ LET played == animals[Len(animals)]
       IN  /\ CARD_INDEX[played.card_id].type = "Omnivore"
           /\ played.owner = active_player_index
           /\ biome.cn < CARD_INDEX[played.card_id].level
           /\ \A i \in 1..(Len(animals) - 1) : animals[i].owner # active_player_index

\* The sum of cnPerTurn over the plant instances on the table, counted card
\* by card.
PlantFood ==
    LET Count(c) == Cardinality({i \in 1..Len(plants) : plants[i].card_id = c})
    IN  Count("pl17") * CARD_INDEX["pl17"].cnPerTurn
        + Count("pl2") * CARD_INDEX["pl2"].cnPerTurn

\* C12: after every start_turn that declares no winner, cn is cn_base plus
\* the cn_temp the conversion of the same end_turn call produced (0 for
\* start_game) plus the cnPerTurn of every plant, and cn_temp is 0; so a
\* bonus enters the pool of the turn that follows its conversion and of no
\* later turn.
C12_PoolRecomputedAtStartTurn ==
    /\ winner = NoWinner => biome.cn_temp = 0
    /\ op = "start_game" => biome.cn = CnBase
    /\ (TurnEnded /\ winner = NoWinner) =>
          /\ trace.before_start_turn.biome.cn_temp = trace.after_conversion.biome.cn_temp
          /\ biome.cn = CnBase + trace.after_conversion.biome.cn_temp + PlantFood

\* A turn that began with a bonus from the conversion before it and two
\* plants on the table.
C12_Witness ==
    /\ TurnEnded
    /\ winner = NoWinner
    /\ trace.after_conversion.biome.cn_temp > 0
    /\ Len(plants) >= 2

\* C13: after every start_turn that declares no winner the active player
\* holds 8 cards or has an empty deck; the cards drawn are the front of the
\* deck, in order, appended to the hand, and nobody else's cards move; no
\* hand ever holds more than 8 cards.
C13_DrawToEight ==
    /\ \A p \in {0, 1} : Len(players[p].hand) <= 8
    /\ ((op = "start_game" \/ TurnEnded) /\ winner = NoWinner) =>
          \/ Len(ActivePlayer.hand) = 8
          \/ ActivePlayer.deck = <<>>
    /\ op = "start_game" =>
          /\ <<ActivePlayer.hand \o ActivePlayer.deck,
               players[1 - active_player_index].deck>> \in ShuffledDecks
          /\ players[1 - active_player_index].hand = <<>>
    /\ (TurnEnded /\ winner = NoWinner) =>
          LET b == trace.before_start_turn
              was == b.players[active_player_index]
          IN  /\ Len(ActivePlayer.hand) >= Len(was.hand)
              /\ SubSeq(ActivePlayer.hand, 1, Len(was.hand)) = was.hand
              /\ ActivePlayer.hand \o ActivePlayer.deck = was.hand \o was.deck
              /\ players[1 - active_player_index] = b.players[1 - active_player_index]

\* A draw that stopped at 8 cards with cards left in the deck.
C13_Witness ==
    /\ TurnEnded
    /\ winner = NoWinner
    /\ Len(ActivePlayer.hand) = 8
    /\ ActivePlayer.deck # <<>>
    /\ Len(trace.before_start_turn.players[active_player_index].hand) < 8

\* The positions of the entries of lg that carry one of the tags.
Where(lg, tags) == {i \in 1..Len(lg) : lg[i] \in tags}

Before(A, B) == \A i \in A : \A j \in B : i < j

HuntingTags ==
    {"fase de caza", "no hay depredadores con hambre", "no tiene objetivo",
     "objetivo invalido", "no puede cazar esa presa", "escapa por movilidad",
     "instinto favorece", "alcanza en movilidad", "elimina", "resiste el combate"}

\* The entries one end_turn call appended show the phases in their order.
PhasesInOrder(lg) ==
    LET hunting == Where(lg, HuntingTags)
        feeding == Where(lg, {"fase de alimentacion"})
        starvation == Where(lg, {"muere por hambre", "no hay muertes por hambre"})
        conversion == Where(lg, {"conversion"})
        starting == Where(lg, {"inicio de turno", "gana la partida"})
    IN  /\ 1 \in hunting
        /\ Cardinality(feeding) = 1
        /\ starvation # {}
        /\ Cardinality(conversion) = 1
        /\ Cardinality(starting) = 1
        /\ Before(hunting, feeding)
        /\ Before(feeding, starvation)
        /\ Before(starvation, conversion)
        /\ Before(conversion, starting)

\* What each phase may touch, read off the tables recorded after each phase.
PhasesInFrame(tr) ==
    /\ tr.after_hunting.biome.cn = tr.before.biome.cn
    /\ \A a \in SeqRange(tr.after_hunting.animals) :
          a.instance_id \in IdsOf(tr.before.animals)
    /\ IdsOf(tr.after_feeding.animals) = IdsOf(tr.after_hunting.animals)
    /\ tr.after_feeding.biome.cc = tr.after_hunting.biome.cc
    /\ tr.after_feeding.biome.cn <= tr.after_hunting.biome.cn
    /\ tr.after_starvation.biome.cn = tr.after_feeding.biome.cn
    /\ SeqRange(tr.after_starvation.animals) =
          {a \in SeqRange(tr.after_feeding.animals) : a.hunger < 2}
    /\ tr.after_conversion.animals = tr.after_starvation.animals
    /\ tr.after_conversion.biome.cc = 0
    /\ tr.after_conversion.biome.cn_temp = (2 * tr.after_starvation.biome.cc) \div 5
    /\ tr.before_start_turn.animals = tr.after_conversion.animals
    /\ tr.before_start_turn.biome = tr.after_conversion.biome

\* C14: an end_turn call made with no winner runs hunting, feeding,
\* starvation and conversion in that order, sets the pending_control of the
\* player who acted from check_control on the table after conversion and
\* leaves the other player's flag alone, passes the turn to the other player
\* once and runs that player's start_turn in the same call; play_card never
\* passes the turn, so the players alternate.
C14_EndTurnPipeline ==
    [][/\ (op' = "end_turn" /\ winner = NoWinner) =>
             LET p == active_player_index
                 q == 1 - active_player_index
             IN  /\ trace'.ran
                 /\ trace'.before = State
                 /\ PhasesInOrder(log')
                 /\ PhasesInFrame(trace')
                 /\ trace'.control = check_control(trace'.after_conversion, p)
                 /\ players'[p].pending_control = trace'.control
                 /\ players'[q].pending_control = players[q].pending_control
                 /\ trace'.before_start_turn.active_player_index = q
                 /\ active_player_index' = q
                 /\ \/ winner' = PlayerName(q)
                    \/ winner' = NoWinner /\ actions_used' = 0
       /\ op' = "play_card" => active_player_index' = active_player_index]_vars

\* An end_turn in which a hunt killed, an animal starved and the player who
\* acted kept no control.
C14_Witness ==
    /\ TurnEnded
    /\ Len(trace.after_hunting.animals) < Len(trace.before.animals)
    /\ Len(trace.after_starvation.animals) < Len(trace.after_feeding.animals)
    /\ active_player_index # trace.before.active_player_index

TypeOf(a) == CARD_INDEX[a.card_id].type
LevelOf(a) == CARD_INDEX[a.card_id].level

\* The instance with the given id on a table, as a set (empty if absent).
OnTable(table, id) == {a \in SeqRange(table) : a.instance_id = id}

\* The ids of the preys killed by the hunts of a phase.
Killed(hunts) == {hunts[i].prey : i \in {j \in 1..Len(hunts) : hunts[j].outcome = "kill"}}

\* The entry of predator h names a live, viable prey on the table before its
\* visit.
NamesViablePrey(h, predator_level) ==
    \E prey \in OnTable(h.animals_before, h.prey) :
        /\ TypeOf(prey) \in {"Herbivore", "Omnivore"}
        /\ 2 * LevelOf(prey) >= predator_level

\* C15: the predators visited by resolve_hunting are the Carnivores and
\* Omnivores that had hunger >= 1 when the phase began; a predator with
\* hunger 0 removes nothing even when hunting_choices gives it a viable
\* prey; a visit with no entry, an entry naming no live instance or an entry
\* naming a prey that is not viable changes no table, cc or fed record, only
\* the log.
C15_OnlyHungryPredatorsHunt ==
    trace.ran =>
        LET hunts == trace.hunts
            was == trace.before.animals
            hungry == {a \in SeqRange(was) :
                          TypeOf(a) \in {"Carnivore", "Omnivore"} /\ a.hunger >= 1}
        IN  /\ Len(hunts) = Cardinality(hungry)
            /\ {hunts[i].predator : i \in 1..Len(hunts)} = {a.instance_id : a \in hungry}
            /\ trace.idle_mapped \cap {hunts[i].predator : i \in 1..Len(hunts)} = {}
            /\ \A id \in trace.idle_mapped :
                  OnTable(trace.after_hunting.animals, id) \subseteq OnTable(was, id)
            /\ IdsOf(was) \ IdsOf(trace.after_hunting.animals) = Killed(hunts)
            /\ trace.fed_predators \subseteq {hunts[i].predator : i \in 1..Len(hunts)}
            /\ trace.after_hunting.players = trace.before.players
            /\ trace.after_hunting.plants = trace.before.plants
            /\ trace.after_hunting.biome.cn = trace.before.biome.cn
            /\ trace.after_hunting.biome.cn_temp = trace.before.biome.cn_temp
            /\ \A i \in 1..Len(hunts) :
                  LET h == hunts[i]
                      level == LevelOf(CHOOSE a \in hungry : a.instance_id = h.predator)
                      skipped == \/ h.prey = 0
                                 \/ OnTable(h.animals_before, h.prey) = {}
                                 \/ ~NamesViablePrey(h, level)
                  IN  /\ skipped <=> h.outcome \in {"no target", "invalid", "not viable"}
                      /\ skipped =>
                            /\ h.animals_after = h.animals_before
                            /\ h.cc_after = h.cc_before
                            /\ h.predator \notin trace.fed_predators

\* A phase in which a predator with hunger 0 was given a viable prey while a
\* hungry one named an instance that is not on the table.
C15_Witness ==
    /\ trace.ran
    /\ trace.idle_mapped # {}
    /\ \E i \in 1..Len(trace.hunts) :
          /\ trace.hunts[i].prey # 0
          /\ trace.hunts[i].outcome = "invalid"

\* The visits of a phase that reached resolve_single_hunt.
Resolved(hunts) ==
    {i \in 1..Len(hunts) : hunts[i].outcome \in {"escape", "kill", "resist"}}

\* min(100, trunc(kg / 10)) and the two scores, as C16 writes them.
Scaled(kg) == IF kg \div 10 < 100 THEN kg \div 10 ELSE 100
AttackOf(card) == card.attack + (20 * Scaled(card.weightKg)) \div 100
DefenseOf(card) == card.defense + (25 * Scaled(card.weightKg)) \div 100

HuntSucceedsByRule(predator_card, prey_card) ==
    /\ \/ predator_card.instinct >= prey_card.instinct
       \/ predator_card.mobility >= prey_card.mobility
    /\ AttackOf(predator_card) >= DefenseOf(prey_card)

\* table without the instance id, the instance `keep` given hunger h.
AfterKill(table, id, keep, h) ==
    LET Other(a) == a.instance_id # id
        rest == SelectSeq(table, Other)
    IN  [i \in 1..Len(rest) |->
            IF rest[i].instance_id = keep THEN [rest[i] EXCEPT !.hunger = h]
            ELSE rest[i]]

\* C16: a hunt succeeds iff the predator's instinct or mobility is at least
\* the prey's and its attack score is at least the prey's defense score; a
\* success removes exactly the prey, adds the prey's level to cc, records the
\* predator as fed and gives the predator hunger 0 when the levels are equal
\* and max(hunger - 1, 0) otherwise; an escape or a resist leaves animals,
\* hunger values and cc unchanged.
C16_SingleHunt ==
    trace.ran =>
        \A i \in Resolved(trace.hunts) :
            LET h == trace.hunts[i]
                predator_card ==
                    CARD_INDEX[(CHOOSE a \in SeqRange(trace.before.animals) :
                                    a.instance_id = h.predator).card_id]
                prey_card ==
                    CARD_INDEX[(CHOOSE a \in SeqRange(h.animals_before) :
                                    a.instance_id = h.prey).card_id]
                fed == IF prey_card.level = predator_card.level THEN 0
                       ELSE IF h.hunger - 1 > 0 THEN h.hunger - 1 ELSE 0
            IN  /\ (h.outcome = "kill") <=> HuntSucceedsByRule(predator_card, prey_card)
                /\ h.outcome = "kill" =>
                      /\ h.animals_after = AfterKill(h.animals_before, h.prey, h.predator, fed)
                      /\ h.cc_after = h.cc_before + prey_card.level
                      /\ h.predator \in trace.fed_predators
                /\ h.outcome # "kill" =>
                      /\ h.animals_after = h.animals_before
                      /\ h.cc_after = h.cc_before

\* A phase with a kill of a prey of another level by a predator that the
\* prey's instinct beat, and a hunt that the prey resisted.
C16_Witness ==
    /\ trace.ran
    /\ \E i \in Resolved(trace.hunts) : trace.hunts[i].outcome = "resist"
    /\ \E i \in Resolved(trace.hunts) :
          /\ trace.hunts[i].outcome = "kill"
          /\ trace.hunts[i].predator_live
          /\ trace.hunts[i].predator # trace.hunts[i].prey

\* The table and the pool a level step of resolve_feeding started from.
TableBeforeStep(tr, i) ==
    IF i = 1 THEN tr.after_hunting.animals ELSE tr.steps[i - 1].animals
PoolBeforeStep(tr, i) ==
    IF i = 1 THEN tr.after_hunting.biome.cn ELSE tr.steps[i - 1].cn

\* The positions on a table of the Herbivores and Omnivores of a level.
EatersAt(table, level) ==
    {j \in 1..Len(table) :
        /\ CARD_INDEX[table[j].card_id].type \in {"Herbivore", "Omnivore"}
        /\ CARD_INDEX[table[j].card_id].level = level}

\* The first position of E, in table order, with the greatest weight.
HeaviestAt(table, E) ==
    CHOOSE j \in E :
        \A k \in E :
            \/ CARD_INDEX[table[k].card_id].weightKg < CARD_INDEX[table[j].card_id].weightKg
            \/ /\ CARD_INDEX[table[k].card_id].weightKg = CARD_INDEX[table[j].card_id].weightKg
               /\ j <= k

\* table with hunger 0 at the positions of Fed and hunger + 1 at those of
\* Unfed.
Feed(table, Fed, Unfed) ==
    [j \in 1..Len(table) |->
        IF j \in Fed THEN [table[j] EXCEPT !.hunger = 0]
        ELSE IF j \in Unfed THEN [table[j] EXCEPT !.hunger = @ + 1]
        ELSE table[j]]

\* C17: resolve_feeding visits the levels 1..lmax in ascending order and, at
\* a level L with n >= 1 Herbivores and Omnivores, does exactly one of: all n
\* eat (cn >= L*n: cn - L*n, hunger 0); a duel (cn < L*n, n >= 2, cn >= L:
\* cn - L, the first heaviest gets hunger 0, every other one hunger + 1);
\* nobody eats (cn unchanged, all n hunger + 1).  A level without such
\* animals changes nothing.
C17_FeedingByLevel ==
    trace.ran =>
        /\ Len(trace.steps) = 6
        /\ \A i \in 1..Len(trace.steps) :
              LET step == trace.steps[i]
                  table == TableBeforeStep(trace, i)
                  cn == PoolBeforeStep(trace, i)
                  E == EatersAt(table, i)
                  n == Cardinality(E)
              IN  /\ step.level = i
                  /\ step.cn_before = cn
                  /\ CASE n = 0 ->
                            /\ step.cn = cn
                            /\ step.animals = table
                       [] n >= 1 /\ cn >= i * n ->
                            /\ step.cn = cn - i * n
                            /\ step.animals = Feed(table, E, {})
                       [] n >= 2 /\ cn < i * n /\ cn >= i ->
                            /\ step.cn = cn - i
                            /\ step.animals =
                                  Feed(table, {HeaviestAt(table, E)},
                                       E \ {HeaviestAt(table, E)})
                       [] OTHER ->
                            /\ step.cn = cn
                            /\ step.animals = Feed(table, {}, E)

\* A duel among three animals or more, two of them sharing the greatest
\* weight.
C17_Witness ==
    /\ trace.ran
    /\ \E i \in 1..Len(trace.steps) :
          LET table == TableBeforeStep(trace, i)
              E == EatersAt(table, i)
              w == HeaviestAt(table, E)
          IN  /\ trace.steps[i].branch = "duel"
              /\ Cardinality(E) >= 3
              /\ \E k \in E \ {w} :
                    CARD_INDEX[table[k].card_id].weightKg =
                        CARD_INDEX[table[w].card_id].weightKg

\* The predators that completed a successful hunt in the phase.
SuccessfulHunters(hunts) ==
    {hunts[i].predator : i \in {j \in 1..Len(hunts) : hunts[j].outcome = "kill"}}

\* C18: after the level loop of resolve_feeding every Carnivore on the table
\* that made no successful hunt in this end_turn has hunger + 1, every
\* Carnivore that did has the hunger its hunt left, no other animal is
\* touched (an Omnivore never, hunter or not), and cn stays what the level
\* loop left; the level loop itself never touches a Carnivore.
C18_CarnivoreHungerStep ==
    trace.ran =>
        LET loop == trace.steps[Len(trace.steps)].animals
            fin == trace.after_feeding.animals
            hunters == SuccessfulHunters(trace.hunts)
        IN  /\ trace.after_feeding.biome.cn = trace.steps[Len(trace.steps)].cn
            /\ Len(fin) = Len(loop)
            /\ \A a \in SeqRange(trace.after_hunting.animals) :
                  TypeOf(a) = "Carnivore" => a \in SeqRange(loop)
            /\ \A j \in 1..Len(loop) :
                  IF TypeOf(loop[j]) = "Carnivore" /\ loop[j].instance_id \notin hunters
                  THEN fin[j] = [loop[j] EXCEPT !.hunger = @ + 1]
                  ELSE fin[j] = loop[j]

\* A feeding with a Carnivore that had killed and an Omnivore that had not.
C18_Witness ==
    /\ trace.ran
    /\ \E a \in SeqRange(trace.after_feeding.animals) :
          /\ TypeOf(a) = "Carnivore"
          /\ a.instance_id \in SuccessfulHunters(trace.hunts)
    /\ \E a \in SeqRange(trace.after_feeding.animals) :
          /\ TypeOf(a) = "Omnivore"
          /\ a.instance_id \notin SuccessfulHunters(trace.hunts)

\* The sum of the levels of the animals of table whose id is not in kept.
RECURSIVE LevelsGone(_, _)
LevelsGone(table, kept) ==
    IF table = <<>> THEN 0
    ELSE (IF Head(table).instance_id \in kept THEN 0 ELSE LevelOf(Head(table)))
         + LevelsGone(Tail(table), kept)

\* C19: the cn_temp an end_turn's conversion produces is floor(0.40 * S), S
\* being the sum of the levels of the animals that were on the table when
\* the call began and are gone after starvation (killed in a hunt or
\* starved, each counted once); cc is 0 after the conversion and in every
\* state between calls.
C19_ConversionOfRemovedLevels ==
    /\ biome.cc = 0
    /\ trace.ran =>
          LET S == LevelsGone(trace.before.animals,
                              IdsOf(trace.after_starvation.animals))
          IN  /\ trace.before.biome.cc = 0
              /\ trace.after_starvation.biome.cc = S
              /\ trace.after_conversion.biome.cn_temp = (40 * S) \div 100
              /\ trace.after_conversion.biome.cc = 0
              /\ IdsOf(trace.after_starvation.animals) \subseteq IdsOf(trace.before.animals)

\* An end_turn that lost animals both to a hunt and to starvation and turned
\* them into a bonus that is not a multiple of the factor.
C19_Witness ==
    /\ trace.ran
    /\ Killed(trace.hunts) # {}
    /\ Len(trace.after_starvation.animals) < Len(trace.after_feeding.animals)
    /\ trace.after_starvation.biome.cc % 5 # 0
    /\ trace.after_conversion.biome.cn_temp > 0

\* C20: every hunt resolved in a phase is made by a predator that is on the
\* table when its hunt is resolved; an Omnivore killed as prey earlier in
\* the phase removes no prey, adds nothing to cc and is not recorded as fed.
C20_HuntersAreLive ==
    trace.ran =>
        \A i \in Resolved(trace.hunts) :
            LET h == trace.hunts[i]
            IN  /\ h.predator \in IdsOf(h.animals_before)
                /\ h.predator \notin IdsOf(h.animals_before) =>
                      /\ h.animals_after = h.animals_before
                      /\ h.cc_after = h.cc_before
                      /\ h.predator \notin trace.fed_predators

\* The Carnivores of a table.
CarnivoresOn(table) == {a \in SeqRange(table) : TypeOf(a) = "Carnivore"}

\* C21: in every end_turn that runs its phases, a Carnivore that starts with
\* hunger 0 is on the table afterwards with hunger 1, and a Carnivore that
\* starts with hunger 1 either made a successful hunt in this call and is
\* recorded as fed, or has hunger 2 after feeding and is removed by
\* starvation in this call; no Carnivore starts with another hunger. The
\* table end_turn leaves is the one starvation left and play_card keeps
\* every instance on it as it is, so a Carnivore that survives one
\* resolution without a successful hunt enters the next with hunger 1 and
\* does not survive that one without a successful hunt.
C21_CarnivoreFate ==
    /\ [](trace.ran =>
            /\ animals = trace.after_starvation.animals
            /\ \A a \in CarnivoresOn(trace.before.animals) :
                  LET id == a.instance_id
                      fed == /\ id \in trace.fed_predators
                             /\ id \in SuccessfulHunters(trace.hunts)
                      starved == /\ \E b \in OnTable(trace.after_feeding.animals, id) :
                                        b.hunger >= 2
                                 /\ OnTable(trace.after_starvation.animals, id) = {}
                  IN  /\ a.hunger \in {0, 1}
                      /\ a.hunger = 0 =>
                            /\ OnTable(animals, id) = {[a EXCEPT !.hunger = 1]}
                            /\ id \notin trace.fed_predators
                      /\ a.hunger = 1 =>
                            /\ fed \/ starved
                            /\ ~(fed /\ starved)
                            /\ fed => OnTable(animals, id) = {[a EXCEPT !.hunger = 0]})
    /\ [][op' = "play_card" =>
             \A a \in CarnivoresOn(animals) : a \in SeqRange(animals')]_vars

\* An end_turn in which a Carnivore with hunger 1 hunts a viable prey that
\* resists, and is removed by starvation.
C21_Witness ==
    /\ trace.ran
    /\ \E a \in CarnivoresOn(trace.before.animals) :
          /\ a.hunger = 1
          /\ a.instance_id \notin trace.fed_predators
          /\ \E i \in 1..Len(trace.hunts) :
                /\ trace.hunts[i].predator = a.instance_id
                /\ trace.hunts[i].outcome = "resist"
          /\ OnTable(animals, a.instance_id) = {}

\* C22: in every successful hunt made by a predator that is on the table
\* when the hunt is resolved, the predator is another instance than the prey
\* it removes and is on the table immediately after the hunt, whatever the
\* hunting_choices, a mapping of an Omnivore's id to itself included.
C22_HunterOutlivesItsHunt ==
    trace.ran =>
        \A i \in Resolved(trace.hunts) :
            LET h == trace.hunts[i]
            IN  (h.outcome = "kill" /\ h.predator \in IdsOf(h.animals_before)) =>
                    /\ h.predator # h.prey
                    /\ h.predator \in IdsOf(h.animals_after)

====
